---- MODULE Spec2Model ----
(***************************************************************************)
(* Model of sushy_tools/emulator/resources/systems/hypervdriver.py:        *)
(* the HyperVDriver operations on one Hyper-V virtual machine.             *)
(*                                                                         *)
(* The hypervisor (os_win vmutils) is the environment: it holds the VM's   *)
(* generation, power state and boot order, and any of its primitives may   *)
(* raise.  Each driver operation is one action; `result` is what the       *)
(* caller observes (return value or escaping exception) and `calls` the    *)
(* backend primitives the operation issued.                                *)
(***************************************************************************)
EXTENDS Integers, Sequences, FiniteSets, TLC

VARIABLES
    vmGen,            \* get_vm_generation(identity): 1 or 2
    vmState,          \* get_vm_state(identity)
    BootOrder,        \* generation 1: vssd.BootOrder, sequence of tokens
    BootSourceOrder,  \* generation 2: vssd.BootSourceOrder, sequence of records
    result,           \* outcome of the last driver call
    calls,            \* backend primitives issued by the last driver call
    before,           \* boot order read by the last set_boot_device call
    prevSet,          \* class set by the call before the last one, "None"
                      \* unless that call was a successful set_boot_device
    pc,               \* concurrent callers: position of each call
    req,              \* concurrent callers: requested boot class
    local,            \* concurrent callers: the boot order each call has read
    initOrder,        \* concurrent callers: boot order before any call
    lastWriter        \* concurrent callers: the call that persisted last

vars == <<vmGen, vmState, BootOrder, BootSourceOrder, result, calls, before,
          prevSet, pc, req, local, initOrder, lastWriter>>

seqVars == <<result, calls, before, prevSet>>
concVars == <<pc, req, local, initOrder, lastWriter>>

----------------------------------------------------------------------------
\* Bounds

MaxBootDevices == 4
NumCallers == 2
MaxConcDevices == 3

----------------------------------------------------------------------------
\* os_win constants, kept symbolic

VM_GEN_1 == 1
VM_GEN_2 == 2

HYPERV_VM_STATE_ENABLED == "enabled"
HYPERV_VM_STATE_DISABLED == "disabled"
HYPERV_VM_STATE_REBOOT == "reboot"
HYPERV_VM_STATE_PAUSED == "paused"

BOOT_DEVICE_FLOPPY == "floppy"
BOOT_DEVICE_CDROM == "cdrom"
BOOT_DEVICE_HARDDISK == "harddisk"
BOOT_DEVICE_NETWORK == "network"

_BOOT_SOURCE_TYPE_DRIVE == 1
_BOOT_SOURCE_TYPE_NETWORK == 2

_DISK_DRIVE_RES_SUB_TYPE == "Synthetic Disk Drive"
_DVD_DRIVE_RES_SUB_TYPE == "Synthetic DVD Drive"
PHYS_DISK_RES_SUB_TYPE == "Physical Disk Drive"
ETH_PORT_RES_SUB_TYPE == "Synthetic Ethernet Port"

None == "None"

----------------------------------------------------------------------------
\* Class-level maps set up by initialize()

VM_STATE_MAP_wrong ==
    [s \in {"On", "ForceOn", "ForceOff", "ForceRestart", "GracefulShutdown"} |->
        CASE s = "On" -> HYPERV_VM_STATE_ENABLED
          [] s = "ForceOn" -> HYPERV_VM_STATE_ENABLED
          [] s = "ForceOff" -> HYPERV_VM_STATE_DISABLED
          [] s = "ForceRestart" -> HYPERV_VM_STATE_REBOOT
          [] s = "GracefulShutdown" -> HYPERV_VM_STATE_DISABLED]

VM_STATE_MAP ==
    [s \in {"On", "ForceOn", "ForceOff", "ForceRestart"} |->
        CASE s = "On" -> HYPERV_VM_STATE_ENABLED
          [] s = "ForceOn" -> HYPERV_VM_STATE_ENABLED
          [] s = "ForceOff" -> HYPERV_VM_STATE_DISABLED
          [] s = "ForceRestart" -> HYPERV_VM_STATE_REBOOT]

BOOT_ORDER_MAP ==
    [s \in {"Pxe", "Hdd", "Cd"} |->
        CASE s = "Pxe" -> BOOT_DEVICE_NETWORK
          [] s = "Hdd" -> BOOT_DEVICE_HARDDISK
          [] s = "Cd" -> BOOT_DEVICE_CDROM]

\* dict.get(key): the value, or None when the key is missing
DictGet(map, key) == IF key \in DOMAIN map THEN map[key] ELSE None

----------------------------------------------------------------------------
\* Inputs the front-end can pass

PowerTransitions ==
    {"On", "ForceOn", "ForceOff", "GracefulShutdown", "GracefulRestart",
     "ForceRestart", "Nmi", "Bogus"}

BootSources == {"Pxe", "Hdd", "Cd", "Usb"}

\* Generation-1 tokens of vssd.BootOrder
Tokens ==
    {BOOT_DEVICE_FLOPPY, BOOT_DEVICE_CDROM, BOOT_DEVICE_HARDDISK,
     BOOT_DEVICE_NETWORK}

\* Generation-2 boot source records (Msvm_BootSourceSettingData paths)
Records == {"net0", "disk0", "disk1", "dvd0", "pdisk0"}

\* bssd.BootSourceType of a record
BootSourceType ==
    [d \in Records |->
        IF d = "net0" THEN _BOOT_SOURCE_TYPE_NETWORK
        ELSE _BOOT_SOURCE_TYPE_DRIVE]

\* bssd.associators(...)[0].ResourceSubType of a record
ResourceSubType ==
    [d \in Records |->
        CASE d = "net0" -> ETH_PORT_RES_SUB_TYPE
          [] d \in {"disk0", "disk1"} -> _DISK_DRIVE_RES_SUB_TYPE
          [] d = "dvd0" -> _DVD_DRIVE_RES_SUB_TYPE
          [] d = "pdisk0" -> PHYS_DISK_RES_SUB_TYPE]

VmStates ==
    {HYPERV_VM_STATE_ENABLED, HYPERV_VM_STATE_DISABLED,
     HYPERV_VM_STATE_PAUSED}

\* get_vm_summary_info(identity) and _get_vm_nics(identity)
SummaryInfo == [MemoryUsage |-> 4, NumberOfProcessors |-> 2]
VmNics == <<[ElementName |-> "nic0", Address |-> "00155D000001"]>>

----------------------------------------------------------------------------
\* Python list helpers

InSeq(x, s) == \E i \in 1..Len(s) : s[i] = x

RECURSIVE RemoveFirst(_, _)
RemoveFirst(s, x) ==
    IF s = <<>> THEN <<>>
    ELSE IF Head(s) = x THEN Tail(s)
    ELSE <<Head(s)>> \o RemoveFirst(Tail(s), x)

RECURSIVE Reverse(_)
Reverse(s) == IF s = <<>> THEN <<>> ELSE Reverse(Tail(s)) \o <<Head(s)>>

\* Sequences over S without repetition, of length lo..hi
InjSeqs(S, lo, hi) ==
    UNION {{s \in [1..n -> S] : \A i, j \in 1..n : s[i] = s[j] => i = j} :
           n \in lo..hi}

\* list.remove(x): removes the first occurrence, ValueError when absent
ListRemove_tolerant(l, x) == [exc |-> None, val |-> RemoveFirst(l, x)]

ListRemove(l, x) ==
    IF InSeq(x, l) THEN [exc |-> None, val |-> RemoveFirst(l, x)]
    ELSE [exc |-> "ValueError", val |-> l]

\* list.insert(0, x)
ListInsert0_atEnd(l, x) == l \o <<x>>

ListInsert0(l, x) == <<x>> \o l

----------------------------------------------------------------------------
\* Boot policy, generation 1

\* next(k for (k, v) in _BOOT_ORDER_MAP.items() if v == boot_order[0])
GetBootDeviceGen1(boot_order) ==
    IF boot_order = <<>> THEN [exc |-> "IndexError", ret |-> None]
    ELSE LET ks == {k \in DOMAIN BOOT_ORDER_MAP :
                        BOOT_ORDER_MAP[k] = boot_order[1]}
         IN IF ks = {} THEN [exc |-> "StopIteration", ret |-> None]
            ELSE [exc |-> None, ret |-> CHOOSE k \in ks : TRUE]

\* boot_order.remove(boot_device); boot_order.insert(0, boot_device)
SetBootDeviceGen1(boot_order, boot_source) ==
    LET boot_device == DictGet(BOOT_ORDER_MAP, boot_source)
        removed == ListRemove(boot_order, boot_device)
    IN IF removed.exc # None
       THEN [exc |-> removed.exc, order |-> boot_order]
       ELSE [exc |-> None, order |-> ListInsert0(removed.val, boot_device)]

----------------------------------------------------------------------------
\* Boot policy, generation 2

GetBootDeviceGen2_last(boot_devices) ==
    IF boot_devices = <<>> THEN None
    ELSE LET bssd == boot_devices[Len(boot_devices)]
         IN IF BootSourceType[bssd] = _BOOT_SOURCE_TYPE_NETWORK THEN "Pxe"
            ELSE IF ResourceSubType[bssd] = _DISK_DRIVE_RES_SUB_TYPE THEN "Hdd"
            ELSE IF ResourceSubType[bssd] = _DVD_DRIVE_RES_SUB_TYPE THEN "Cd"
            ELSE None

GetBootDeviceGen2(boot_devices) ==
    IF boot_devices = <<>> THEN None
    ELSE LET bssd == boot_devices[1]
         IN IF BootSourceType[bssd] = _BOOT_SOURCE_TYPE_NETWORK THEN "Pxe"
            ELSE IF BootSourceType[bssd] = _BOOT_SOURCE_TYPE_DRIVE
            THEN IF ResourceSubType[bssd] = _DISK_DRIVE_RES_SUB_TYPE THEN "Hdd"
                 ELSE IF ResourceSubType[bssd] = _DVD_DRIVE_RES_SUB_TYPE
                 THEN "Cd"
                 ELSE None
            ELSE None

\* The test the loop of _set_boot_device_gen2 applies to one record
Matches(boot_source, boot_device) ==
    IF boot_source = "Pxe"
       /\ BootSourceType[boot_device] = _BOOT_SOURCE_TYPE_NETWORK
    THEN TRUE
    ELSE \/ /\ boot_source = "Hdd"
            /\ ResourceSubType[boot_device] = _DISK_DRIVE_RES_SUB_TYPE
         \/ /\ boot_source = "Cd"
            /\ ResourceSubType[boot_device] = _DVD_DRIVE_RES_SUB_TYPE

\* new_boot_devices after the for loop
Matching_reversed(old_boot_devices, boot_source) ==
    Reverse(SelectSeq(old_boot_devices, LAMBDA d : Matches(boot_source, d)))

Matching(old_boot_devices, boot_source) ==
    SelectSeq(old_boot_devices, LAMBDA d : Matches(boot_source, d))

\* [d for d in old_boot_devices if d not in new_boot_devices]
Remaining_dropsOne(old_boot_devices, new_boot_devices) ==
    LET r == SelectSeq(old_boot_devices, LAMBDA d : ~InSeq(d, new_boot_devices))
    IN IF Len(r) > 1 THEN Tail(r) ELSE r

Remaining(old_boot_devices, new_boot_devices) ==
    SelectSeq(old_boot_devices, LAMBDA d : ~InSeq(d, new_boot_devices))

\* the tuple assigned to vssd.BootSourceOrder
NewBootDevices_matchLast(old_boot_devices, boot_source) ==
    LET new_boot_devices == Matching(old_boot_devices, boot_source)
    IN Remaining(old_boot_devices, new_boot_devices) \o new_boot_devices

NewBootDevices(old_boot_devices, boot_source) ==
    LET new_boot_devices == Matching(old_boot_devices, boot_source)
    IN new_boot_devices \o Remaining(old_boot_devices, new_boot_devices)

----------------------------------------------------------------------------
\* Results and backend call records

Ok(op, arg, ret, fail) ==
    [op |-> op, arg |-> arg, ret |-> ret, exc |-> None, fail |-> fail]

Raised(op, arg, exc, fail) ==
    [op |-> op, arg |-> arg, ret |-> None, exc |-> exc, fail |-> fail]

Call(fn, arg) == [fn |-> fn, arg |-> arg]

BackendException == "BackendException"

IdleResult == Ok("none", None, None, "none")

----------------------------------------------------------------------------
\* Driver operations (one call each, no other call interleaved)

\* The class set by the call that has just ended, None unless it was a
\* successful set_boot_device
JustSet ==
    IF result.op = "set_boot_device" /\ result.exc = None THEN result.arg
    ELSE None

\* What a call that is not set_boot_device leaves behind
Finish(res, cs) ==
    /\ result' = res
    /\ calls' = cs
    /\ before' = <<>>
    /\ prevSet' = JustSet
    /\ UNCHANGED concVars

\* Effect of set_vm_state(identity, vm_state) in the hypervisor
BackendSetVmState(vm_state) ==
    IF vm_state = HYPERV_VM_STATE_REBOOT THEN vmState ELSE vm_state

get_power_state(fail) ==
    /\ IF fail = "get_vm_state"
       THEN Finish(Raised("get_power_state", None, BackendException, fail),
                   <<Call("get_vm_state", None)>>)
       ELSE Finish(Ok("get_power_state", None,
                      IF vmState = HYPERV_VM_STATE_ENABLED THEN "On" ELSE "Off",
                      fail),
                   <<Call("get_vm_state", None)>>)
    /\ UNCHANGED <<vmGen, vmState, BootOrder, BootSourceOrder>>

set_power_state(state, fail) ==
    LET vm_state == DictGet(VM_STATE_MAP, state)
    IN /\ IF vm_state # None
          THEN IF fail = "set_vm_state"
               THEN /\ Finish(Raised("set_power_state", state, "FishyError",
                                     fail),
                              <<Call("set_vm_state", vm_state)>>)
                    /\ UNCHANGED vmState
               ELSE /\ Finish(Ok("set_power_state", state, None, fail),
                              <<Call("set_vm_state", vm_state)>>)
                    /\ vmState' = BackendSetVmState(vm_state)
          ELSE IF state = "GracefulShutdown"
          THEN IF fail = "soft_shutdown_vm"
               THEN /\ Finish(Raised("set_power_state", state, "FishyError",
                                     fail),
                              <<Call("soft_shutdown_vm", None)>>)
                    /\ UNCHANGED vmState
               ELSE /\ Finish(Ok("set_power_state", state, None, fail),
                              <<Call("soft_shutdown_vm", None)>>)
                    /\ vmState' = HYPERV_VM_STATE_DISABLED
          ELSE /\ Finish(Raised("set_power_state", state, "NotSupportedError",
                                fail),
                         <<>>)
               /\ UNCHANGED vmState
       /\ UNCHANGED <<vmGen, BootOrder, BootSourceOrder>>

get_boot_device(fail) ==
    /\ IF fail = "get_vm_generation"
       THEN Finish(Raised("get_boot_device", None, BackendException, fail),
                   <<Call("get_vm_generation", None)>>)
       ELSE IF fail = "_lookup_vm_check"
       THEN Finish(Raised("get_boot_device", None, BackendException, fail),
                   <<Call("get_vm_generation", None),
                     Call("_lookup_vm_check", None)>>)
       ELSE IF vmGen = VM_GEN_1
       THEN LET r == GetBootDeviceGen1(BootOrder)
            IN Finish([op |-> "get_boot_device", arg |-> None, ret |-> r.ret,
                       exc |-> r.exc, fail |-> fail],
                      <<Call("get_vm_generation", None),
                        Call("_lookup_vm_check", None)>>)
       ELSE Finish(Ok("get_boot_device", None,
                      GetBootDeviceGen2(BootSourceOrder), fail),
                   <<Call("get_vm_generation", None),
                     Call("_lookup_vm_check", None)>>)
    /\ UNCHANGED <<vmGen, vmState, BootOrder, BootSourceOrder>>

get_boot_mode(fail) ==
    /\ IF fail = "get_vm_generation"
       THEN Finish(Raised("get_boot_mode", None, BackendException, fail),
                   <<Call("get_vm_generation", None)>>)
       ELSE Finish(Ok("get_boot_mode", None,
                      IF vmGen = VM_GEN_2 THEN "UEFI" ELSE "Legacy", fail),
                   <<Call("get_vm_generation", None)>>)
    /\ UNCHANGED <<vmGen, vmState, BootOrder, BootSourceOrder>>

get_total_memory(fail) ==
    /\ IF fail = "get_vm_summary_info"
       THEN Finish(Raised("get_total_memory", None, BackendException, fail),
                   <<Call("get_vm_summary_info", None)>>)
       ELSE Finish(Ok("get_total_memory", None, SummaryInfo.MemoryUsage, fail),
                   <<Call("get_vm_summary_info", None)>>)
    /\ UNCHANGED <<vmGen, vmState, BootOrder, BootSourceOrder>>

get_total_cpus(fail) ==
    /\ IF fail = "get_vm_summary_info"
       THEN Finish(Raised("get_total_cpus", None, BackendException, fail),
                   <<Call("get_vm_summary_info", None)>>)
       ELSE Finish(Ok("get_total_cpus", None, SummaryInfo.NumberOfProcessors,
                      fail),
                   <<Call("get_vm_summary_info", None)>>)
    /\ UNCHANGED <<vmGen, vmState, BootOrder, BootSourceOrder>>

get_nics(fail) ==
    /\ IF fail = "_get_vm_nics"
       THEN Finish(Raised("get_nics", None, BackendException, fail),
                   <<Call("_get_vm_nics", None)>>)
       ELSE Finish(Ok("get_nics", None,
                      [i \in 1..Len(VmNics) |->
                          [id |-> VmNics[i].ElementName,
                           mac |-> VmNics[i].Address]],
                      fail),
                   <<Call("_get_vm_nics", None)>>)
    /\ UNCHANGED <<vmGen, vmState, BootOrder, BootSourceOrder>>

\* What a set_boot_device call leaves behind
FinishSet(res, cs, old) ==
    /\ result' = res
    /\ calls' = cs
    /\ before' = old
    /\ prevSet' = JustSet
    /\ UNCHANGED concVars

set_boot_device(boot_source, fail) ==
    /\ IF fail = "get_vm_generation"
       THEN /\ FinishSet(Raised("set_boot_device", boot_source,
                                BackendException, fail),
                         <<Call("get_vm_generation", None)>>, <<>>)
            /\ UNCHANGED <<BootOrder, BootSourceOrder>>
       ELSE IF fail = "_lookup_vm_check"
       THEN /\ FinishSet(Raised("set_boot_device", boot_source,
                                BackendException, fail),
                         <<Call("get_vm_generation", None),
                           Call("_lookup_vm_check", None)>>, <<>>)
            /\ UNCHANGED <<BootOrder, BootSourceOrder>>
       ELSE IF vmGen = VM_GEN_1
       THEN LET r == SetBootDeviceGen1(BootOrder, boot_source)
            IN IF r.exc # None
               THEN /\ FinishSet(Raised("set_boot_device", boot_source, r.exc,
                                        fail),
                                 <<Call("get_vm_generation", None),
                                   Call("_lookup_vm_check", None)>>,
                                 BootOrder)
                    /\ UNCHANGED <<BootOrder, BootSourceOrder>>
               ELSE IF fail = "set_boot_order"
               THEN /\ FinishSet(Raised("set_boot_device", boot_source,
                                        BackendException, fail),
                                 <<Call("get_vm_generation", None),
                                   Call("_lookup_vm_check", None),
                                   Call("set_boot_order", r.order)>>,
                                 BootOrder)
                    /\ UNCHANGED <<BootOrder, BootSourceOrder>>
               ELSE /\ FinishSet(Ok("set_boot_device", boot_source, None, fail),
                                 <<Call("get_vm_generation", None),
                                   Call("_lookup_vm_check", None),
                                   Call("set_boot_order", r.order)>>,
                                 BootOrder)
                    /\ BootOrder' = r.order
                    /\ UNCHANGED BootSourceOrder
       ELSE LET new == NewBootDevices(BootSourceOrder, boot_source)
            IN IF fail = "_modify_virtual_system"
               THEN /\ FinishSet(Raised("set_boot_device", boot_source,
                                        BackendException, fail),
                                 <<Call("get_vm_generation", None),
                                   Call("_lookup_vm_check", None),
                                   Call("_modify_virtual_system", new)>>,
                                 BootSourceOrder)
                    /\ UNCHANGED <<BootOrder, BootSourceOrder>>
               ELSE /\ FinishSet(Ok("set_boot_device", boot_source, None, fail),
                                 <<Call("get_vm_generation", None),
                                   Call("_lookup_vm_check", None),
                                   Call("_modify_virtual_system", new)>>,
                                 BootSourceOrder)
                    /\ BootSourceOrder' = new
                    /\ UNCHANGED BootOrder
    /\ UNCHANGED <<vmGen, vmState>>

----------------------------------------------------------------------------
\* Specification of the driver used by one caller at a time

Init ==
    /\ vmGen \in {VM_GEN_1, VM_GEN_2}
    /\ vmState \in VmStates
    /\ IF vmGen = VM_GEN_1
       THEN /\ BootOrder \in InjSeqs(Tokens, Cardinality(Tokens),
                                     Cardinality(Tokens))
            /\ BootSourceOrder = <<>>
       ELSE /\ BootOrder = <<>>
            /\ BootSourceOrder \in InjSeqs(Records, 0, MaxBootDevices)
    /\ result = IdleResult
    /\ calls = <<>>
    /\ before = <<>>
    /\ prevSet = None
    /\ pc = <<>>
    /\ req = <<>>
    /\ local = <<>>
    /\ initOrder = <<>>
    /\ lastWriter = 0

Next ==
    \/ \E fail \in {"none", "get_vm_state"} : get_power_state(fail)
    \/ \E state \in PowerTransitions :
         \E fail \in {"none", "set_vm_state", "soft_shutdown_vm"} :
            set_power_state(state, fail)
    \/ \E fail \in {"none", "get_vm_generation", "_lookup_vm_check"} :
         get_boot_device(fail)
    \/ \E boot_source \in BootSources :
         \E fail \in {"none", "get_vm_generation", "_lookup_vm_check",
                      "set_boot_order", "_modify_virtual_system"} :
            set_boot_device(boot_source, fail)
    \/ \E fail \in {"none", "get_vm_generation"} : get_boot_mode(fail)
    \/ \E fail \in {"none", "get_vm_summary_info"} : get_total_memory(fail)
    \/ \E fail \in {"none", "get_vm_summary_info"} : get_total_cpus(fail)
    \/ \E fail \in {"none", "_get_vm_nics"} : get_nics(fail)

Spec == Init /\ [][Next]_vars

----------------------------------------------------------------------------
\* Specification of concurrent set_boot_device calls on the same VM.  The
\* driver takes no lock: a call reads the boot order from the hypervisor
\* (one backend request), reorders its private copy, and persists it (a
\* second backend request); other calls may run in between.

Callers == 1..NumCallers

CurrentOrder == IF vmGen = VM_GEN_1 THEN BootOrder ELSE BootSourceOrder

\* list(self._vmutils._lookup_vm_check(identity).BootOrder / .BootSourceOrder)
ReadBootOrder(p) ==
    /\ pc[p] = "read"
    /\ local' = [local EXCEPT ![p] = CurrentOrder]
    /\ pc' = [pc EXCEPT ![p] = "write"]
    /\ UNCHANGED <<vmGen, vmState, BootOrder, BootSourceOrder, req, initOrder,
                   lastWriter>>
    /\ UNCHANGED seqVars

\* remove/insert on the copy, then set_boot_order(identity, boot_order)
WriteGen1(p) ==
    /\ pc[p] = "write"
    /\ vmGen = VM_GEN_1
    /\ LET r == SetBootDeviceGen1(local[p], req[p])
       IN IF r.exc # None
          THEN UNCHANGED <<BootOrder, lastWriter>>
          ELSE /\ BootOrder' = r.order
               /\ lastWriter' = p
    /\ pc' = [pc EXCEPT ![p] = "done"]
    /\ UNCHANGED <<vmGen, vmState, BootSourceOrder, req, local, initOrder>>
    /\ UNCHANGED seqVars

\* partition of the copy, then _modify_virtual_system(vssd)
WriteGen2(p) ==
    /\ pc[p] = "write"
    /\ vmGen = VM_GEN_2
    /\ BootSourceOrder' = NewBootDevices(local[p], req[p])
    /\ lastWriter' = p
    /\ pc' = [pc EXCEPT ![p] = "done"]
    /\ UNCHANGED <<vmGen, vmState, BootOrder, req, local, initOrder>>
    /\ UNCHANGED seqVars

ConcInit ==
    /\ vmGen \in {VM_GEN_1, VM_GEN_2}
    /\ vmState = HYPERV_VM_STATE_ENABLED
    /\ IF vmGen = VM_GEN_1
       THEN /\ BootOrder \in InjSeqs(Tokens, Cardinality(Tokens),
                                     Cardinality(Tokens))
            /\ BootSourceOrder = <<>>
       ELSE /\ BootOrder = <<>>
            /\ BootSourceOrder \in InjSeqs(Records, 0, MaxConcDevices)
    /\ initOrder = CurrentOrder
    /\ result = IdleResult
    /\ calls = <<>>
    /\ before = <<>>
    /\ prevSet = None
    /\ pc = [p \in Callers |-> "read"]
    /\ req \in [Callers -> DOMAIN BOOT_ORDER_MAP]
    /\ local = [p \in Callers |-> <<>>]
    /\ lastWriter = 0

ConcNext ==
    \/ \E p \in Callers : ReadBootOrder(p)
    \/ \E p \in Callers : WriteGen1(p)
    \/ \E p \in Callers : WriteGen2(p)

SpecConc == ConcInit /\ [][ConcNext]_vars

----------------------------------------------------------------------------
\* Vocabulary of the properties

Count(x, s) == Cardinality({i \in 1..Len(s) : s[i] = x})

Range(s) == {s[i] : i \in 1..Len(s)}

\* Same entries with the same multiplicities
IsPermutation(a, b) ==
    \A x \in Range(a) \cup Range(b) : Count(x, a) = Count(x, b)

\* The boot class a single boot-order entry stands for, None if it has none
ClassOfEntry(e) ==
    IF vmGen = VM_GEN_1 THEN GetBootDeviceGen1(<<e>>).ret
    ELSE GetBootDeviceGen2(<<e>>)

HasClass(order, c) == \E i \in 1..Len(order) : ClassOfEntry(order[i]) = c

AllDone == \A p \in Callers : pc[p] = "done"

IsSet == result.op = "set_boot_device"
IsGet == result.op = "get_boot_device"

----------------------------------------------------------------------------
\* Properties

\* C1: on a generation-1 VM whose boot order contains the token T of class
\* Pxe, Hdd or Cd, set_boot_device(id, classOf(T)) persists T followed by the
\* original order without T, and a get_boot_device that follows returns
\* classOf(T).
C1_Gen1SetPromotesToken ==
    /\ (/\ IsSet
        /\ vmGen = VM_GEN_1
        /\ result.fail = "none"
        /\ result.arg \in {"Pxe", "Hdd", "Cd"}
        /\ InSeq(BOOT_ORDER_MAP[result.arg], before))
       => /\ result.exc = None
          /\ BootOrder =
                <<BOOT_ORDER_MAP[result.arg]>> \o
                SelectSeq(before, LAMBDA e : e # BOOT_ORDER_MAP[result.arg])
    /\ (/\ IsGet
        /\ vmGen = VM_GEN_1
        /\ result.fail = "none"
        /\ prevSet # None)
       => /\ result.exc = None
          /\ result.ret = prevSet

C1_Witness ==
    /\ IsSet
    /\ vmGen = VM_GEN_1
    /\ result.exc = None
    /\ result.arg = "Hdd"
    /\ before[3] = BOOT_DEVICE_HARDDISK
    /\ BootOrder[1] = BOOT_DEVICE_HARDDISK

\* C2: on a generation-2 VM, set_boot_device(id, C) persists the stable
\* partition of the order it read: the records of class C first, then the
\* others, each group in its original order, and the same multiset of records.
C2_Gen2SetIsStablePartition ==
    (/\ IsSet
     /\ vmGen = VM_GEN_2
     /\ result.fail = "none"
     /\ result.arg \in {"Pxe", "Hdd", "Cd"})
    => /\ result.exc = None
       /\ BootSourceOrder =
             SelectSeq(before, LAMBDA d : ClassOfEntry(d) = result.arg) \o
             SelectSeq(before, LAMBDA d : ClassOfEntry(d) # result.arg)
       /\ IsPermutation(BootSourceOrder, before)
       /\ (before = <<"net0", "disk0", "dvd0">> /\ result.arg = "Hdd")
          => BootSourceOrder = <<"disk0", "net0", "dvd0">>

C2_Witness ==
    /\ IsSet
    /\ vmGen = VM_GEN_2
    /\ result.exc = None
    /\ result.arg = "Hdd"
    /\ before = <<"net0", "disk0", "dvd0", "disk1">>
    /\ BootSourceOrder = <<"disk0", "disk1", "net0", "dvd0">>

\* C3: on a generation-2 VM, a set_boot_device(id, C) that directly follows a
\* successful set_boot_device(id, C) leaves the order as the first call left it.
C3_Gen2SetIdempotent ==
    (/\ IsSet
     /\ vmGen = VM_GEN_2
     /\ result.exc = None
     /\ prevSet = result.arg)
    => BootSourceOrder = before

C3_Witness ==
    /\ IsSet
    /\ vmGen = VM_GEN_2
    /\ result.exc = None
    /\ result.arg = "Hdd"
    /\ prevSet = "Hdd"
    /\ BootSourceOrder = <<"disk1", "disk0", "net0", "dvd0">>

\* C4: set_power_state issues exactly one set_vm_state call with the mapped
\* state for On, ForceOn, ForceOff and ForceRestart, only the soft-shutdown
\* call for GracefulShutdown, and for any other transition raises
\* NotSupportedError without any backend call.
C4_PowerDispatch ==
    result.op = "set_power_state"
    => /\ result.arg \in {"On", "ForceOn"}
          => calls = <<Call("set_vm_state", "enabled")>>
       /\ result.arg = "ForceOff"
          => calls = <<Call("set_vm_state", "disabled")>>
       /\ result.arg = "ForceRestart"
          => calls = <<Call("set_vm_state", "reboot")>>
       /\ result.arg = "GracefulShutdown"
          => calls = <<Call("soft_shutdown_vm", None)>>
       /\ result.arg \notin {"On", "ForceOn", "ForceOff", "ForceRestart",
                             "GracefulShutdown"}
          => /\ result.exc = "NotSupportedError"
             /\ calls = <<>>

C4_Witness ==
    /\ result.op = "set_power_state"
    /\ result.arg = "GracefulShutdown"
    /\ result.exc = None
    /\ calls = <<Call("soft_shutdown_vm", None)>>
    /\ vmState = HYPERV_VM_STATE_DISABLED

\* C5: whatever a contract operation raises is a FishyError (NotSupportedError
\* included); no backend or built-in exception reaches the caller.
C5_OnlyLayerErrorsEscape ==
    result.exc \in {None, "FishyError", "NotSupportedError"}

\* C6: on a generation-2 VM, get_boot_device is decided by the first record
\* alone: Pxe for a network record, Hdd or Cd for a disk or optical drive
\* record, None for an empty order or any other first record; the boot order
\* is left as it was.
C6_Gen2GetReadsFirstRecord ==
    /\ [](/\ IsGet
          /\ vmGen = VM_GEN_2
          /\ result.fail = "none"
          => /\ result.exc = None
             /\ result.ret =
                   IF BootSourceOrder = <<>> THEN None
                   ELSE CASE BootSourceOrder[1] = "net0" -> "Pxe"
                          [] BootSourceOrder[1] \in {"disk0", "disk1"} -> "Hdd"
                          [] BootSourceOrder[1] = "dvd0" -> "Cd"
                          [] OTHER -> None)
    /\ [][result'.op = "get_boot_device"
          => /\ BootSourceOrder' = BootSourceOrder
             /\ BootOrder' = BootOrder]_vars

C6_Witness ==
    /\ IsGet
    /\ vmGen = VM_GEN_2
    /\ result.exc = None
    /\ result.ret = None
    /\ Len(BootSourceOrder) = 3
    /\ BootSourceOrder[1] = "pdisk0"
    /\ BootSourceOrder[3] = "net0"

\* C7: on a generation-1 VM, get_boot_device returns the class mapped to the
\* first entry of the boot order, and None, without raising, when that entry
\* has no class.
C7_Gen1GetAbsentOnUnmapped ==
    (/\ IsGet
     /\ vmGen = VM_GEN_1
     /\ result.fail = "none")
    => /\ result.exc = None
       /\ result.ret =
             CASE BootOrder[1] = BOOT_DEVICE_NETWORK -> "Pxe"
               [] BootOrder[1] = BOOT_DEVICE_HARDDISK -> "Hdd"
               [] BootOrder[1] = BOOT_DEVICE_CDROM -> "Cd"
               [] OTHER -> None

C9_PowerStateUnknownWhenIndeterminate ==
    result.op = "get_power_state"
    => /\ result.exc = None
       /\ result.ret =
             IF result.fail # "none" THEN None
             ELSE IF vmState = HYPERV_VM_STATE_ENABLED THEN "On"
             ELSE IF vmState = HYPERV_VM_STATE_DISABLED THEN "Off"
             ELSE None

\* C10 as stated: under every interleaving of concurrent set_boot_device
\* calls, every persisted order is a permutation of the initial one, and once
\* all calls are done the first entry has a class one of the calls requested,
\* when the order holds a device of such a class.
C10_Original ==
    /\ IsPermutation(CurrentOrder, initOrder)
    /\ (AllDone /\ \E p \in Callers : HasClass(CurrentOrder, req[p]))
       => \E p \in Callers : ClassOfEntry(CurrentOrder[1]) = req[p]

\* C10 amended: every persisted order is a permutation of the initial one,
\* and once all calls are done the first entry has the class requested by the
\* call that persisted last, when the order holds a device of that class.
C10_LastWriterWins ==
    /\ IsPermutation(CurrentOrder, initOrder)
    /\ (AllDone /\ lastWriter \in Callers
        /\ HasClass(CurrentOrder, req[lastWriter]))
       => ClassOfEntry(CurrentOrder[1]) = req[lastWriter]

C10_Witness ==
    /\ AllDone
    /\ vmGen = VM_GEN_2
    /\ req[1] = "Hdd"
    /\ req[2] = "Cd"
    /\ local[1] = initOrder
    /\ local[2] = initOrder
    /\ lastWriter = 2
    /\ initOrder = <<"net0", "disk0", "dvd0">>
    /\ BootSourceOrder = <<"dvd0", "net0", "disk0">>

====
